---------------------------- MODULE Spec2Model ----------------------------
(***************************************************************************)
(* Model of firedrake/norms.py: errornorm(u, uh, norm_type, degree_rise,   *)
(* mesh) and norm(v, norm_type, mesh).                                     *)
(*                                                                         *)
(* One call is in progress at a time (the functions are synchronous); pc   *)
(* is the position inside the call.  The symbolic algebra (u - uh, inner,  *)
(* grad, div, curl, dx) is modelled as term constructors; the assembly     *)
(* engine is the environment: it answers each invocation with a real value *)
(* or with a failure.                                                      *)
(*                                                                         *)
(* Reals are fixed-point: an assembled value is an integer number of       *)
(* quanta, a returned norm is an integer number of square-root quanta, and *)
(* sqrt rounds down.                                                       *)
(***************************************************************************)
EXTENDS Integers, Sequences, FiniteSets, TLC

(***************************************************************************)
(* Bounds of the model.                                                    *)
(***************************************************************************)
MaxRank == 1
MaxDegree == 1
MaxVal == 4

(* The "small tolerance" of the specification (its 1e-12), in quanta.  The *)
(* code has no such constant; it is used only to state claims about it.    *)
Tolerance == 2

(***************************************************************************)
(* Fields and symbolic expressions.                                        *)
(***************************************************************************)
Dims == {2, 3}

RECURSIVE ShapesOfRank(_)
ShapesOfRank(n) ==
    IF n = 0 THEN {<< >>}
    ELSE {Append(s, d) : s \in ShapesOfRank(n - 1), d \in Dims}

Shapes == UNION {ShapesOfRank(n) : n \in 0..MaxRank}

NoDegree == 0 - 1

SymbolicTypes == {"Constant", "Expression"}

(* A Function lives in a function space whose element has a degree; the    *)
(* other expression classes have a shape only.                             *)
Functions ==
    [type : {"Function"}, ufl_shape : Shapes, degree : 0..MaxDegree]

Symbolics ==
    [type : SymbolicTypes, ufl_shape : Shapes, degree : {NoDegree}]

Fields == Functions \cup Symbolics

NoField == [type |-> "None", ufl_shape |-> << >>, degree |-> NoDegree]

IsFunction(f) == f.type = "Function"

Degree(f) == f.degree

(* u - uh *)
Sub(a, b) == [op |-> "sub", l |-> a, r |-> b]

(* a field used as an expression *)
Atom(f) == [op |-> "field", l |-> f, r |-> NoField]

NoExpr == [op |-> "none", l |-> NoField, r |-> NoField]

(* Operands of an integrand: v, grad(v), div(v), curl(v) *)
Id(v) == [d |-> "id", of |-> v]
grad(v) == [d |-> "grad", of |-> v]
div(v) == [d |-> "div", of |-> v]
curl(v) == [d |-> "curl", of |-> v]

inner(a, b) == [op |-> "inner", l |-> a, r |-> b]
Mul(a, b) == [op |-> "mul", l |-> a, r |-> b]

(* integrand*dx is a form of one integral; form + form joins the integrals *)
dx == "dx"
Integral(integrand, measure) ==
    << [integrand |-> integrand, measure |-> measure] >>
FormSum(f, g) == f \o g

NoForm == << >>

(***************************************************************************)
(* Strings are sequences of one-character strings.                         *)
(***************************************************************************)
UpperCase ==
    << "A", "B", "C", "D", "E", "F", "G", "H", "I", "J", "K", "L", "M",
       "N", "O", "P", "Q", "R", "S", "T", "U", "V", "W", "X", "Y", "Z" >>
LowerCase ==
    << "a", "b", "c", "d", "e", "f", "g", "h", "i", "j", "k", "l", "m",
       "n", "o", "p", "q", "r", "s", "t", "u", "v", "w", "x", "y", "z" >>

LowerChar(c) ==
    IF \E i \in 1..Len(UpperCase) : UpperCase[i] = c
    THEN LowerCase[CHOOSE i \in 1..Len(UpperCase) : UpperCase[i] = c]
    ELSE c

(* the string used as it came *)
Lower_Identity(s) == s

(* str.lower() *)
Lower(s) == [i \in 1..Len(s) |-> LowerChar(s[i])]

(* The norm_type arguments the calls are made with. *)
NormTypes ==
    { << "L", "2" >>, << "l", "2" >>,
      << "H", "1" >>, << "h", "1" >>,
      << "H", "d", "i", "v" >>, << "h", "d", "i", "v" >>,
      << "H", "D", "I", "V" >>,
      << "H", "c", "u", "r", "l" >>, << "h", "C", "u", "r", "L" >>,
      << "H", "2" >>, << "L", "1" >>,
      << " ", "L", "2" >>, << "L", "2", " " >>, << "h", "1", " " >>,
      << >> }

Meshes == {"None", "mesh"}
DegreeRises == {"None", "rise"}

(***************************************************************************)
(* Outcomes of a call.  The text of an error is the sequence of its        *)
(* fragments (its arguments, or the pieces of its formatted message).      *)
(***************************************************************************)
NoError == [kind |-> "none", text |-> << >>]
Pending == [status |-> "pending", value |-> 0, error |-> NoError]
Returned(x) == [status |-> "returned", value |-> x, error |-> NoError]
Raised(e) == [status |-> "raised", value |-> 0, error |-> e]

RankError ==
    [kind |-> "RuntimeError",
     text |-> << "Mismatching rank between u and uh" >>]

(* the type of uh left out of the error *)
TypeError_NoType(uh) ==
    [kind |-> "ValueError", text |-> << "uh should be a Function" >>]

TypeError(uh) ==
    [kind |-> "ValueError",
     text |-> << "uh should be a Function, is a %r", uh.type >>]

(* the message built from the lowercased string *)
UnknownNormError_Lowered(norm_type) ==
    [kind |-> "RuntimeError",
     text |-> << "Unknown norm type '" >> \o Lower(norm_type) \o << "'" >>]

UnknownNormError(norm_type) ==
    [kind |-> "RuntimeError",
     text |-> << "Unknown norm type '" >> \o norm_type \o << "'" >>]

MathDomainError ==
    [kind |-> "ValueError", text |-> << "math domain error" >>]

(***************************************************************************)
(* The assembly engine: one real value, or a failure of its own.           *)
(***************************************************************************)
EngineErrors ==
    { [kind |-> "AssemblyFailure", text |-> << "quadrature" >>],
      [kind |-> "AssemblyFailure", text |-> << "singular" >>] }

Responses ==
    [ok : {TRUE}, val : (0 - MaxVal)..MaxVal, err : {NoError}]
        \cup [ok : {FALSE}, val : {0}, err : EngineErrors]

NotAssembled == [ok |-> FALSE, val |-> 0, err |-> NoError]

(***************************************************************************)
(* norm, lines 75-87.                                                      *)
(***************************************************************************)
Supported(typ) ==
    typ \in { << "l", "2" >>, << "h", "1" >>,
              << "h", "d", "i", "v" >>, << "h", "c", "u", "r", "l" >> }

L2Form(v) == Integral(inner(Id(v), Id(v)), dx)

(* the Hdiv term written with inner(), the H1 term without the L2 part *)
BuildForm_WrongTerms(v, typ) ==
    IF typ = << "l", "2" >> THEN
        L2Form(v)
    ELSE IF typ = << "h", "1" >> THEN
        Integral(inner(grad(v), grad(v)), dx)
    ELSE IF typ = << "h", "d", "i", "v" >> THEN
        FormSum(L2Form(v), Integral(inner(div(v), div(v)), dx))
    ELSE IF typ = << "h", "c", "u", "r", "l" >> THEN
        FormSum(L2Form(v), Integral(inner(curl(v), curl(v)), dx))
    ELSE
        NoForm

BuildForm(v, typ) ==
    IF typ = << "l", "2" >> THEN
        L2Form(v)
    ELSE IF typ = << "h", "1" >> THEN
        FormSum(L2Form(v), Integral(inner(grad(v), grad(v)), dx))
    ELSE IF typ = << "h", "d", "i", "v" >> THEN
        FormSum(L2Form(v), Integral(Mul(div(v), div(v)), dx))
    ELSE IF typ = << "h", "c", "u", "r", "l" >> THEN
        FormSum(L2Form(v), Integral(inner(curl(v), curl(v)), dx))
    ELSE
        NoForm

(* floor of the square root of x >= 0 *)
Isqrt(x) == CHOOSE r \in 0..x : r * r <= x /\ x < (r + 1) * (r + 1)

(* the square root of the magnitude *)
Sqrt_OfMagnitude(x) == Returned(Isqrt(IF x < 0 THEN 0 - x ELSE x))

(* a negative value within the tolerance clamped to zero *)
Sqrt_Clamped(x) ==
    IF x < 0 /\ x > 0 - Tolerance THEN Returned(0)
    ELSE IF x < 0 THEN Raised(MathDomainError)
    ELSE Returned(Isqrt(x))

(* sqrt(assemble(form)) on the value the engine returned *)
Sqrt(x) == IF x < 0 THEN Raised(MathDomainError) ELSE Returned(Isqrt(x))

(* the engine's failure caught and raised again as another error *)
EngineFailure_Wrapped(r) ==
    Raised([kind |-> "RuntimeError", text |-> r.err.text])

(* an exception of assemble(form) is not caught: it is the call's outcome *)
EngineFailure(r) == Raised(r.err)

(* norm as a function of its arguments and of the engine's answer *)
NormForm(v, norm_type) == BuildForm(v, Lower(norm_type))

NormOutcome(v, norm_type, r) ==
    IF ~Supported(Lower(norm_type)) THEN Raised(UnknownNormError(norm_type))
    ELSE IF ~r.ok THEN EngineFailure(r)
    ELSE Sqrt(r.val)

(***************************************************************************)
(* errornorm, lines 22-37.                                                 *)
(***************************************************************************)
Rank(f) == Len(f.ufl_shape)

(* only a reference of higher rank refused *)
RankMismatch_OneSided(a, b) == Len(a.ufl_shape) > Len(b.ufl_shape)

(* urank != uhrank *)
RankMismatch(a, b) == Rank(a) # Rank(b)

(* equal degrees warned about too *)
ShouldWarn_NotStrict(a, b) == IsFunction(a) /\ Degree(b) >= Degree(a)

(* isinstance(u, Function) and degree_uh > degree_u *)
ShouldWarn(a, b) == IsFunction(a) /\ Degree(b) > Degree(a)

(* the operands the other way round *)
NormArgument_Swapped(a, b) == Sub(b, a)

(* the argument errornorm gives norm: u - uh *)
NormArgument(a, b) == Sub(a, b)

(***************************************************************************)
(* State.                                                                  *)
(***************************************************************************)
VARIABLES
    pc,          \* position in the call in progress
    op,          \* the function the caller invoked
    u, uh,       \* errornorm's operands
    norm_type, degree_rise, mesh,
    v,           \* norm's argument
    typ,         \* norm's local: norm_type.lower()
    form,        \* norm's local: the form built
    assembled,   \* what the engine answered
    warnings,    \* messages given to the logging sink during the call
    engineCalls, \* forms handed to assemble during the call
    outcome      \* what the call returned or raised

vars ==
    << pc, op, u, uh, norm_type, degree_rise, mesh, v, typ, form,
       assembled, warnings, engineCalls, outcome >>

Init ==
    /\ pc = "idle"
    /\ op = "none"
    /\ u = NoField
    /\ uh = NoField
    /\ norm_type = << >>
    /\ degree_rise = "None"
    /\ mesh = "None"
    /\ v = NoExpr
    /\ typ = << >>
    /\ form = NoForm
    /\ assembled = NotAssembled
    /\ warnings = << >>
    /\ engineCalls = << >>
    /\ outcome = Pending

(* errornorm(u, uh, norm_type, degree_rise, mesh) is entered *)
CallErrornorm ==
    /\ pc = "idle"
    /\ \E a \in Fields, b \in Fields, nt \in NormTypes,
          dr \in DegreeRises, m \in Meshes :
          /\ u' = a
          /\ uh' = b
          /\ norm_type' = nt
          /\ degree_rise' = dr
          /\ mesh' = m
    /\ op' = "errornorm"
    /\ pc' = "e_rank"
    /\ UNCHANGED << v, typ, form, assembled, warnings, engineCalls, outcome >>

(* lines 22-26 *)
CheckRank ==
    /\ pc = "e_rank"
    /\ IF RankMismatch(u, uh)
       THEN /\ outcome' = Raised(RankError)
            /\ pc' = "done"
       ELSE /\ outcome' = outcome
            /\ pc' = "e_type"
    /\ UNCHANGED << op, u, uh, norm_type, degree_rise, mesh, v, typ, form,
                    assembled, warnings, engineCalls >>

(* lines 28-29 *)
CheckType ==
    /\ pc = "e_type"
    /\ IF ~IsFunction(uh)
       THEN /\ outcome' = Raised(TypeError(uh))
            /\ pc' = "done"
       ELSE /\ outcome' = outcome
            /\ pc' = "e_degree"
    /\ UNCHANGED << op, u, uh, norm_type, degree_rise, mesh, v, typ, form,
                    assembled, warnings, engineCalls >>

DegreeWarning == "Degree of exact solution less than approximation degree"

(* lines 31-35 *)
CheckDegree ==
    /\ pc = "e_degree"
    /\ IF ShouldWarn(u, uh)
       THEN warnings' = Append(warnings, DegreeWarning)
       ELSE warnings' = warnings
    /\ pc' = "e_call"
    /\ UNCHANGED << op, u, uh, norm_type, degree_rise, mesh, v, typ, form,
                    assembled, engineCalls, outcome >>

(* line 37: norm(u - uh, norm_type=norm_type, mesh=mesh) is entered *)
DelegateToNorm ==
    /\ pc = "e_call"
    /\ v' = NormArgument(u, uh)
    /\ pc' = "n_lower"
    /\ UNCHANGED << op, u, uh, norm_type, degree_rise, mesh, typ, form,
                    assembled, warnings, engineCalls, outcome >>

(* norm(v, norm_type, mesh) is entered by the caller *)
CallNorm ==
    /\ pc = "idle"
    /\ \E f \in Fields, nt \in NormTypes, m \in Meshes :
          /\ v' = Atom(f)
          /\ norm_type' = nt
          /\ mesh' = m
    /\ op' = "norm"
    /\ pc' = "n_lower"
    /\ UNCHANGED << u, uh, degree_rise, typ, form, assembled, warnings,
                    engineCalls, outcome >>

(* line 75 *)
LowerType ==
    /\ pc = "n_lower"
    /\ typ' = Lower(norm_type)
    /\ pc' = "n_form"
    /\ UNCHANGED << op, u, uh, norm_type, degree_rise, mesh, v, form,
                    assembled, warnings, engineCalls, outcome >>

(* lines 76-85 *)
Dispatch ==
    /\ pc = "n_form"
    /\ IF Supported(typ)
       THEN /\ form' = BuildForm(v, typ)
            /\ outcome' = outcome
            /\ pc' = "n_assemble"
       ELSE /\ form' = form
            /\ outcome' = Raised(UnknownNormError(norm_type))
            /\ pc' = "done"
    /\ UNCHANGED << op, u, uh, norm_type, degree_rise, mesh, v, typ,
                    assembled, warnings, engineCalls >>

(* line 87, assemble(form): the engine answers, or fails and the failure *)
(* leaves norm (and errornorm) as it is                                   *)
Assemble ==
    /\ pc = "n_assemble"
    /\ engineCalls' = Append(engineCalls, form)
    /\ \E r \in Responses :
          /\ assembled' = r
          /\ IF r.ok
             THEN /\ outcome' = outcome
                  /\ pc' = "n_sqrt"
             ELSE /\ outcome' = EngineFailure(r)
                  /\ pc' = "done"
    /\ UNCHANGED << op, u, uh, norm_type, degree_rise, mesh, v, typ, form,
                    warnings >>

(* line 87, sqrt(...) and return *)
TakeSqrt ==
    /\ pc = "n_sqrt"
    /\ outcome' = Sqrt(assembled.val)
    /\ pc' = "done"
    /\ UNCHANGED << op, u, uh, norm_type, degree_rise, mesh, v, typ, form,
                    assembled, warnings, engineCalls >>

(* the caller has the outcome; nothing of the call is kept *)
Finish ==
    /\ pc = "done"
    /\ pc' = "idle"
    /\ op' = "none"
    /\ u' = NoField
    /\ uh' = NoField
    /\ norm_type' = << >>
    /\ degree_rise' = "None"
    /\ mesh' = "None"
    /\ v' = NoExpr
    /\ typ' = << >>
    /\ form' = NoForm
    /\ assembled' = NotAssembled
    /\ warnings' = << >>
    /\ engineCalls' = << >>
    /\ outcome' = Pending

Next ==
    \/ CallErrornorm
    \/ CheckRank
    \/ CheckType
    \/ CheckDegree
    \/ DelegateToNorm
    \/ CallNorm
    \/ LowerType
    \/ Dispatch
    \/ Assemble
    \/ TakeSqrt
    \/ Finish

Spec == Init /\ [][Next]_vars

(***************************************************************************)
(* Properties.                                                             *)
(***************************************************************************)
NormPcs == {"n_lower", "n_form", "n_assemble", "n_sqrt"}

(* the call in progress is an errornorm call whose operands pass the rank *)
(* check and the type check                                               *)
PassesChecks ==
    /\ op = "errornorm"
    /\ Len(u.ufl_shape) = Len(uh.ufl_shape)
    /\ uh.type = "Function"

(* the norm kind a string names, if any *)
KindOf(s) ==
    CASE Lower(s) = << "l", "2" >> -> "L2"
      [] Lower(s) = << "h", "1" >> -> "H1"
      [] Lower(s) = << "h", "d", "i", "v" >> -> "Hdiv"
      [] Lower(s) = << "h", "c", "u", "r", "l" >> -> "Hcurl"
      [] OTHER -> "unsupported"

(* C1: an errornorm call whose operands differ in tensor rank fails with  *)
(* the rank-mismatch error and does nothing else: no warning, no form, no *)
(* invocation of the assembly engine, whatever uh's kind, the degrees and *)
(* norm_type are.                                                          *)
C1_RankMismatchFailsAlone ==
    (op = "errornorm" /\ pc # "e_rank"
        /\ Len(u.ufl_shape) # Len(uh.ufl_shape))
    => /\ pc = "done"
       /\ outcome = Raised(RankError)
       /\ warnings = << >>
       /\ engineCalls = << >>
       /\ form = NoForm
       /\ assembled = NotAssembled

C1_Witness ==
    /\ op = "errornorm" /\ pc = "done"
    /\ Len(u.ufl_shape) = 1 /\ Len(uh.ufl_shape) = 0
    /\ u.type = "Function" /\ uh.type = "Constant"
    /\ norm_type = << "H", "2" >>
    /\ outcome = Raised(RankError)

(* C2: an errornorm call whose operands have the same rank and whose uh   *)
(* is not a Function fails with the ValueError that names uh and carries  *)
(* the type uh has; no warning is emitted and the engine is not invoked.  *)
C2_NonFunctionApproximationFails ==
    (op = "errornorm" /\ pc \notin {"e_rank", "e_type"}
        /\ Len(u.ufl_shape) = Len(uh.ufl_shape)
        /\ uh.type # "Function")
    => /\ pc = "done"
       /\ outcome.status = "raised"
       /\ outcome.error.kind = "ValueError"
       /\ outcome.error.text
            = << "uh should be a Function, is a %r", uh.type >>
       /\ warnings = << >>
       /\ engineCalls = << >>
       /\ form = NoForm

C2_Witness ==
    /\ op = "errornorm" /\ pc = "done"
    /\ u.type = "Function" /\ uh.type = "Expression"
    /\ Len(u.ufl_shape) = 1 /\ Len(uh.ufl_shape) = 1
    /\ outcome.status = "raised" /\ outcome.error.kind = "ValueError"

(* C3: norm with a string whose lowercased form is none of l2, h1, hdiv,  *)
(* hcurl (surrounding whitespace included) fails with the unknown-norm    *)
(* error, whose message holds the string as the caller gave it; no form   *)
(* is built and the engine is not invoked.                                 *)
C3_UnsupportedNormFails ==
    (v # NoExpr /\ pc \notin {"n_lower", "n_form"}
        /\ KindOf(norm_type) = "unsupported")
    => /\ pc = "done"
       /\ outcome.status = "raised"
       /\ outcome.error.kind = "RuntimeError"
       /\ outcome.error.text
            = << "Unknown norm type '" >> \o norm_type \o << "'" >>
       /\ form = NoForm
       /\ engineCalls = << >>
       /\ assembled = NotAssembled

C3_Witness ==
    /\ op = "norm" /\ pc = "done"
    /\ norm_type = << "L", "2", " " >>
    /\ outcome.status = "raised"
    /\ outcome.error.text = << "Unknown norm type '", "L", "2", " ", "'" >>

(* C4: a finished call has returned a non-negative real or has failed;    *)
(* when the engine's value is negative beyond the tolerance the call has  *)
(* failed with the domain error of the square root.                       *)
C4_NonNegativeOrFails ==
    /\ outcome.status = "returned" => (pc = "done" /\ outcome.value \in Nat)
    /\ pc = "done" => outcome.status \in {"returned", "raised"}
    /\ (pc = "done" /\ assembled.ok /\ assembled.val <= 0 - Tolerance)
       => outcome = Raised(MathDomainError)

C4_Witness ==
    /\ pc = "done"
    /\ assembled.ok /\ assembled.val <= 0 - Tolerance
    /\ outcome = Raised(MathDomainError)

(* C5, as stated: a negative assembled value of magnitude below the       *)
(* tolerance is clamped to zero and the call returns 0.                    *)
C5_ClampedToZero ==
    (pc = "done" /\ assembled.ok
        /\ assembled.val < 0 /\ assembled.val > 0 - Tolerance)
    => outcome = Returned(0)

(* C5, amended: norm applies no tolerance and clamps nothing: any         *)
(* negative assembled value, however small, makes the call fail with the  *)
(* domain error of the square root, and the call returns 0 only when the  *)
(* assembled value is exactly zero.                                        *)
C5_AnyNegativeFails ==
    /\ (pc = "done" /\ assembled.ok /\ assembled.val < 0)
       => outcome = Raised(MathDomainError)
    /\ (pc = "done" /\ outcome = Returned(0))
       => (assembled.ok /\ assembled.val = 0)

C5_Witness ==
    /\ pc = "done"
    /\ assembled.ok
    /\ assembled.val < 0 /\ assembled.val > 0 - Tolerance
    /\ outcome = Raised(MathDomainError)

(* C6: an errornorm call that passes the rank and type checks emits one   *)
(* warning if u is a Function of lower degree than uh and none otherwise; *)
(* the warning is emitted before norm is entered, the step that emits it  *)
(* changes nothing else, and the outcome is what norm gives for u - uh    *)
(* whether or not the warning was emitted.                                 *)
C6_AfterDegreeStep ==
    /\ PassesChecks
    /\ pc \in {"e_call", "done"} \cup NormPcs

C6_Invariant ==
    /\ C6_AfterDegreeStep
       => Len(warnings)
            = IF u.type = "Function" /\ u.degree < uh.degree THEN 1 ELSE 0
    /\ ~C6_AfterDegreeStep => warnings = << >>
    /\ pc = "e_call"
       => (v = NoExpr /\ form = NoForm /\ engineCalls = << >>
             /\ outcome = Pending)
    /\ (PassesChecks /\ pc = "done")
       => outcome = NormOutcome(Sub(u, uh), norm_type, assembled)

C6_WarningIsAdvisory ==
    /\ []C6_Invariant
    /\ [][pc = "e_degree"
            => /\ pc' = "e_call"
               /\ UNCHANGED << op, u, uh, norm_type, degree_rise, mesh, v,
                               typ, form, assembled, engineCalls, outcome >>
         ]_vars
    /\ [][warnings' # warnings => pc \in {"e_degree", "done"}]_vars

C6_Witness ==
    /\ op = "errornorm" /\ pc = "done"
    /\ u.type = "Function" /\ uh.type = "Function"
    /\ u.degree = 0 /\ uh.degree = 1
    /\ warnings = << DegreeWarning >>
    /\ outcome.status = "returned"

(* C7: for every supported kind the form norm hands to the engine is the  *)
(* one of the table, and a returned value is the square root (rounded     *)
(* down to the grid) of the value the engine assembled for that form.     *)
C7_Table(x, kind) ==
    CASE kind = "L2" ->
           << [integrand |-> inner(Id(x), Id(x)), measure |-> "dx"] >>
      [] kind = "H1" ->
           << [integrand |-> inner(Id(x), Id(x)), measure |-> "dx"],
              [integrand |-> inner(grad(x), grad(x)), measure |-> "dx"] >>
      [] kind = "Hdiv" ->
           << [integrand |-> inner(Id(x), Id(x)), measure |-> "dx"],
              [integrand |-> Mul(div(x), div(x)), measure |-> "dx"] >>
      [] kind = "Hcurl" ->
           << [integrand |-> inner(Id(x), Id(x)), measure |-> "dx"],
              [integrand |-> inner(curl(x), curl(x)), measure |-> "dx"] >>

C7_FormAssembledAndRooted ==
    (v # NoExpr /\ KindOf(norm_type) # "unsupported")
    => /\ pc \in {"n_assemble", "n_sqrt", "done"}
          => form = C7_Table(v, KindOf(norm_type))
       /\ pc \in {"n_sqrt", "done"}
          => engineCalls = << C7_Table(v, KindOf(norm_type)) >>
       /\ outcome.status = "returned"
          => /\ assembled.ok
             /\ outcome.value * outcome.value <= assembled.val
             /\ assembled.val < (outcome.value + 1) * (outcome.value + 1)

C7_Witness ==
    /\ op = "norm" /\ pc = "done"
    /\ norm_type = << "H", "D", "I", "V" >>
    /\ assembled.ok /\ assembled.val = MaxVal
    /\ outcome.status = "returned"

(* C8: two strings that differ only in the case of their letters give     *)
(* norm the same form and the same result, or both are refused as         *)
(* unsupported.                                                            *)
C8_SameIgnoringCase(s, t) ==
    /\ Len(s) = Len(t)
    /\ \A i \in 1..Len(s) :
          \/ s[i] = t[i]
          \/ \E k \in 1..Len(UpperCase) :
                {s[i], t[i]} = {UpperCase[k], LowerCase[k]}

C8_Refused(o) ==
    /\ o.status = "raised"
    /\ o.error.kind = "RuntimeError"
    /\ o.error.text[1] = "Unknown norm type '"

C8_CaseInsensitive ==
    (v # NoExpr /\ pc \in {"n_assemble", "n_sqrt", "done"})
    => \A s \in NormTypes :
          C8_SameIgnoringCase(s, norm_type)
          => /\ form = NormForm(v, s)
             /\ pc = "done"
                => IF C8_Refused(outcome)
                   THEN C8_Refused(NormOutcome(v, s, assembled))
                   ELSE outcome = NormOutcome(v, s, assembled)

C8_Witness ==
    /\ op = "norm" /\ pc = "done"
    /\ norm_type = << "h", "C", "u", "r", "L" >>
    /\ \E s \in NormTypes : s # norm_type /\ C8_SameIgnoringCase(s, norm_type)
    /\ outcome.status = "returned"

(* C9: an errornorm call that passes the rank and type checks gives what  *)
(* norm gives for u - uh and norm_type, with nothing done to it, whatever *)
(* degree_rise and mesh are; u and uh are not changed by the call.         *)
C9_Invariant ==
    (PassesChecks /\ pc \in NormPcs \cup {"done"})
    => /\ v = Sub(u, uh)
       /\ pc \in {"n_assemble", "n_sqrt", "done"}
          => form = NormForm(Sub(u, uh), norm_type)
       /\ pc = "done"
          => /\ outcome = NormOutcome(Sub(u, uh), norm_type, assembled)
             /\ engineCalls
                  = IF KindOf(norm_type) = "unsupported" THEN << >>
                    ELSE << NormForm(Sub(u, uh), norm_type) >>

C9_DelegatesToNorm ==
    /\ []C9_Invariant
    /\ [][(op = "errornorm" /\ pc # "done")
            => (u' = u /\ uh' = uh /\ norm_type' = norm_type
                  /\ degree_rise' = degree_rise /\ mesh' = mesh)]_vars

C9_Witness ==
    /\ op = "errornorm" /\ pc = "done"
    /\ mesh = "mesh" /\ degree_rise = "rise"
    /\ u # uh
    /\ norm_type = << "H", "1" >>
    /\ outcome.status = "returned" /\ outcome.value > 0

(* C10: within a call the engine is invoked at most once and only after   *)
(* the rank check, the type check and the dispatch on the norm kind have  *)
(* passed; a call that returns a value has invoked it exactly once; when  *)
(* the invocation fails, the call fails with the engine's error as it is. *)
C10_AssembledOnceAfterValidation ==
    /\ Len(engineCalls) <= 1
    /\ engineCalls # << >>
       => /\ pc \in {"n_sqrt", "done"}
          /\ KindOf(norm_type) # "unsupported"
          /\ op = "errornorm" => PassesChecks
    /\ outcome.status = "returned"
       => (Len(engineCalls) = 1 /\ assembled.ok)
    /\ (pc = "done" /\ engineCalls # << >> /\ ~assembled.ok)
       => /\ assembled.err \in EngineErrors
          /\ outcome = Raised(assembled.err)

C10_Witness ==
    /\ op = "errornorm" /\ pc = "done"
    /\ Len(engineCalls) = 1
    /\ ~assembled.ok
    /\ outcome.status = "raised"
    /\ outcome.error.kind = "AssemblyFailure"

=============================================================================
